---------------------------- MODULE Spec2Model ----------------------------
(***************************************************************************)
(* Stream combinators of streams-rs: Expand / TryExpand (expand.rs),       *)
(* LatestReady / TryLatestReady (latest_ready.rs) and ZipBiased /          *)
(* TryZipBiased (zip_biased.rs).                                           *)
(*                                                                         *)
(* One combinator instance is constructed (kind) and then polled by its    *)
(* downstream.  The upstreams are arbitrary streams: what an upstream      *)
(* reports when it is polled is an input of the poll, drawn from every     *)
(* outcome a Stream / TryStream can report.  The combinators are generic   *)
(* in the item type and never inspect an item, so the items of an upstream *)
(* are labelled by their position: the k-th item an upstream yields is k.  *)
(* trace records, per finished downstream poll, the upstream polls it made *)
(* and what it returned.                                                   *)
(***************************************************************************)
EXTENDS Integers, Sequences, FiniteSets

VARIABLES
    kind,        \* which combinator was constructed
    last_poll,   \* Expand.last_poll / TryExpand.last_poll
    terminated,  \* TryExpand.terminated
    left_poll,   \* ZipBiased.left_poll / TryZipBiased.left_poll
    prev_poll,   \* local prev_poll of (Try)LatestReady::poll_next
    pc,          \* "idle", or "loop" inside (Try)LatestReady::poll_next
    cur,         \* upstream polls made so far by the running poll_next
    up,          \* per upstream (inner, left, right): how many items it has yielded
    trace        \* finished downstream polls: [polls, ret]

vars == <<kind, last_poll, terminated, left_poll, prev_poll, pc, cur, up, trace>>

-----------------------------------------------------------------------------
(* Bounds of the model *)

MaxQueries == 4     \* downstream polls per behaviour
MaxBurst == 2       \* items one (Try)LatestReady poll may see before the upstream must stop producing

Errors == {"e"}

-----------------------------------------------------------------------------
(* std::task::Poll<Option<T>> and Result<T, E> *)

Pending == [tag |-> "Pending"]
RNone == [tag |-> "None"]
RSome(v) == [tag |-> "Some", val |-> v]

Ok(v) == [res |-> "Ok", ok |-> v]
Err(e) == [res |-> "Err", err |-> e]

IsSome(p) == p.tag = "Some"
IsOk(p) == IsSome(p) /\ p.val.res = "Ok"
IsErr(p) == IsSome(p) /\ p.val.res = "Err"

\* What a Stream<Item = T> that has yielded n items can report on one poll.
StreamOutcomes(n) == {Pending, RNone, RSome(n + 1)}

\* What a TryStream<Ok = T, Error = E> that has yielded n items can report on one poll.
TryStreamOutcomes(n) ==
    {Pending, RNone, RSome(Ok(n + 1))} \cup {RSome(Err(e)) : e \in Errors}

Kinds == {"Expand", "TryExpand", "LatestReady", "TryLatestReady", "ZipBiased", "TryZipBiased"}

Polled(src, out) == [src |-> src, out |-> out]

\* The upstreams after the polls of one downstream poll: each item yielded moves its
\* upstream one position on.
Advance(u, polls) ==
    [s \in DOMAIN u |->
        u[s] + Cardinality({i \in DOMAIN polls : polls[i].src = s /\ IsSome(polls[i].out)})]

-----------------------------------------------------------------------------
(* Expand::poll_next: one upstream poll, then the match on (this_poll, last_poll) *)

\* Mutation: NotReady from the upstream is passed on instead of the remembered item.
Expand_poll_next_PassPending(this_poll, lp) ==
    IF this_poll = Pending
    THEN [last_poll |-> lp, ret |-> Pending]
    ELSE [last_poll |-> this_poll, ret |-> this_poll]

\* Mutation: the slot is written by the first ready outcome only.
Expand_poll_next_KeepFirst(this_poll, lp) ==
    IF this_poll = Pending
    THEN [last_poll |-> lp, ret |-> lp]
    ELSE [last_poll |-> IF lp = Pending THEN this_poll ELSE lp, ret |-> this_poll]

\* Mutation: only items are stored in the slot, an exhaustion is returned and forgotten.
Expand_poll_next_ItemsOnly(this_poll, lp) ==
    IF this_poll = Pending
    THEN [last_poll |-> lp, ret |-> lp]
    ELSE [last_poll |-> IF IsSome(this_poll) THEN this_poll ELSE lp, ret |-> this_poll]

Expand_poll_next(this_poll, lp) ==
    IF this_poll = Pending
    THEN [last_poll |-> lp, ret |-> lp]
    ELSE [last_poll |-> this_poll, ret |-> this_poll]

(* TryExpand::poll_next.  this_poll is what the upstream would report. *)

\* Mutation: the terminal arm does not set terminated.
TryExpand_poll_next_NoFlag(this_poll, lp, term) ==
    IF term
    THEN [last_poll |-> lp, terminated |-> term, polled |-> FALSE, ret |-> RNone]
    ELSE IF this_poll = Pending
    THEN [last_poll |-> lp, terminated |-> term, polled |-> TRUE,
          ret |-> IF IsSome(lp) THEN RSome(Ok(lp.val)) ELSE lp]
    ELSE IF IsOk(this_poll)
    THEN [last_poll |-> RSome(this_poll.val.ok), terminated |-> term, polled |-> TRUE,
          ret |-> this_poll]
    ELSE [last_poll |-> RNone, terminated |-> term, polled |-> TRUE, ret |-> this_poll]

TryExpand_poll_next(this_poll, lp, term) ==
    IF term
    THEN [last_poll |-> lp, terminated |-> term, polled |-> FALSE, ret |-> RNone]
    ELSE IF this_poll = Pending
    THEN [last_poll |-> lp, terminated |-> term, polled |-> TRUE,
          ret |-> IF IsSome(lp) THEN RSome(Ok(lp.val)) ELSE lp]
    ELSE IF IsOk(this_poll)
    THEN [last_poll |-> RSome(this_poll.val.ok), terminated |-> term, polled |-> TRUE,
          ret |-> this_poll]
    ELSE [last_poll |-> RNone, terminated |-> TRUE, polled |-> TRUE, ret |-> this_poll]

-----------------------------------------------------------------------------
(* LatestReady::poll_next, one iteration of its loop: the upstream reports o *)

\* Mutation: the first item of a burst is kept instead of the latest.
LatestReady_loop_KeepFirst(o, prev) ==
    IF o = Pending THEN [done |-> TRUE, prev_poll |-> prev, ret |-> prev]
    ELSE IF o = RNone THEN [done |-> TRUE, prev_poll |-> prev, ret |-> RNone]
    ELSE [done |-> FALSE, prev_poll |-> IF prev = Pending THEN o ELSE prev, ret |-> Pending]

\* Mutation: an item buffered when the upstream is exhausted is flushed first.
LatestReady_loop_FlushOnNone(o, prev) ==
    IF o = Pending THEN [done |-> TRUE, prev_poll |-> prev, ret |-> prev]
    ELSE IF o = RNone
    THEN [done |-> TRUE, prev_poll |-> prev, ret |-> IF prev = Pending THEN RNone ELSE prev]
    ELSE [done |-> FALSE, prev_poll |-> o, ret |-> Pending]

\* Mutation: the loop gives up the burst at its second item and returns it.
LatestReady_loop_StopAtSecond(o, prev) ==
    IF o = Pending THEN [done |-> TRUE, prev_poll |-> prev, ret |-> prev]
    ELSE IF o = RNone THEN [done |-> TRUE, prev_poll |-> prev, ret |-> RNone]
    ELSE IF prev # Pending THEN [done |-> TRUE, prev_poll |-> o, ret |-> o]
    ELSE [done |-> FALSE, prev_poll |-> o, ret |-> Pending]

LatestReady_loop(o, prev) ==
    IF o = Pending THEN [done |-> TRUE, prev_poll |-> prev, ret |-> prev]
    ELSE IF o = RNone THEN [done |-> TRUE, prev_poll |-> prev, ret |-> RNone]
    ELSE [done |-> FALSE, prev_poll |-> o, ret |-> Pending]

(* TryLatestReady::poll_next, one iteration of its loop *)

\* Mutation: an item buffered when the upstream fails is flushed instead of the failure.
TryLatestReady_loop_FlushOnErr(o, prev) ==
    IF o = Pending THEN [done |-> TRUE, prev_poll |-> prev, ret |-> prev]
    ELSE IF o = RNone THEN [done |-> TRUE, prev_poll |-> prev, ret |-> o]
    ELSE IF IsErr(o)
    THEN [done |-> TRUE, prev_poll |-> prev, ret |-> IF prev = Pending THEN o ELSE prev]
    ELSE [done |-> FALSE, prev_poll |-> o, ret |-> Pending]

\* Mutation: an exhausted upstream is handled like one that is not ready.
TryLatestReady_loop_PrevOnNone(o, prev) ==
    IF o = Pending \/ o = RNone THEN [done |-> TRUE, prev_poll |-> prev, ret |-> prev]
    ELSE IF IsErr(o) THEN [done |-> TRUE, prev_poll |-> prev, ret |-> o]
    ELSE [done |-> FALSE, prev_poll |-> o, ret |-> Pending]

TryLatestReady_loop(o, prev) ==
    IF o = Pending THEN [done |-> TRUE, prev_poll |-> prev, ret |-> prev]
    ELSE IF o = RNone \/ IsErr(o) THEN [done |-> TRUE, prev_poll |-> prev, ret |-> o]
    ELSE [done |-> FALSE, prev_poll |-> o, ret |-> Pending]

-----------------------------------------------------------------------------
(* ZipBiased::poll_next.  l and r are what left and right would report.    *)

\* Mutation: an exhausted right side is answered NotReady, the left item kept.
ZipBiased_right_WaitOnNone(r, lp, polls) ==
    IF r = Pending \/ r = RNone
    THEN [left_poll |-> lp, ret |-> Pending, polls |-> Append(polls, Polled("right", r))]
    ELSE [left_poll |-> Pending,
          ret |-> RSome(<<lp.val, r.val>>),
          polls |-> Append(polls, Polled("right", r))]

\* Mutation: an exhausted right side is latched in left_poll.
ZipBiased_right_Latch(r, lp, polls) ==
    IF r = Pending
    THEN [left_poll |-> lp, ret |-> Pending, polls |-> Append(polls, Polled("right", r))]
    ELSE [left_poll |-> IF r = RNone THEN RNone ELSE Pending,
          ret |-> IF r = RNone THEN RNone ELSE RSome(<<lp.val, r.val>>),
          polls |-> Append(polls, Polled("right", r))]

\* Mutation: a NotReady of right drops the held left item.
ZipBiased_right_DropOnPending(r, lp, polls) ==
    IF r = Pending
    THEN [left_poll |-> Pending, ret |-> Pending, polls |-> Append(polls, Polled("right", r))]
    ELSE [left_poll |-> Pending,
          ret |-> IF r = RNone THEN RNone ELSE RSome(<<lp.val, r.val>>),
          polls |-> Append(polls, Polled("right", r))]

\* Mutation: the left item is cloned into the pair and stays in left_poll.
ZipBiased_right_NoReset(r, lp, polls) ==
    IF r = Pending
    THEN [left_poll |-> lp, ret |-> Pending, polls |-> Append(polls, Polled("right", r))]
    ELSE [left_poll |-> IF r = RNone THEN Pending ELSE lp,
          ret |-> IF r = RNone THEN RNone ELSE RSome(<<lp.val, r.val>>),
          polls |-> Append(polls, Polled("right", r))]

\* The arm Poll::Ready(some_left @ Some(_)): poll right, take the left item, pair.
ZipBiased_right(r, lp, polls) ==
    IF r = Pending
    THEN [left_poll |-> lp, ret |-> Pending, polls |-> Append(polls, Polled("right", r))]
    ELSE [left_poll |-> Pending,
          ret |-> IF r = RNone THEN RNone ELSE RSome(<<lp.val, r.val>>),
          polls |-> Append(polls, Polled("right", r))]

\* Mutation: right is polled as well when left is not ready (an unbiased zip).
ZipBiased_poll_next_Unbiased(l, r, lp) ==
    IF lp = Pending
    THEN IF l = Pending
         THEN [left_poll |-> lp, ret |-> Pending,
               polls |-> <<Polled("left", l), Polled("right", Pending)>>]
         ELSE IF l = RNone
         THEN [left_poll |-> l, ret |-> RNone, polls |-> <<Polled("left", l)>>]
         ELSE ZipBiased_right(r, l, <<Polled("left", l)>>)
    ELSE IF lp = RNone
    THEN [left_poll |-> lp, ret |-> RNone, polls |-> <<>>]
    ELSE ZipBiased_right(r, lp, <<>>)

\* Mutation: an exhausted left is returned but not stored in left_poll.
ZipBiased_poll_next_ForgetNone(l, r, lp) ==
    IF lp = Pending
    THEN IF l = Pending
         THEN [left_poll |-> lp, ret |-> Pending, polls |-> <<Polled("left", l)>>]
         ELSE IF l = RNone
         THEN [left_poll |-> Pending, ret |-> RNone, polls |-> <<Polled("left", l)>>]
         ELSE ZipBiased_right(r, l, <<Polled("left", l)>>)
    ELSE IF lp = RNone
    THEN [left_poll |-> lp, ret |-> RNone, polls |-> <<>>]
    ELSE ZipBiased_right(r, lp, <<>>)

ZipBiased_poll_next(l, r, lp) ==
    IF lp = Pending
    THEN IF l = Pending
         THEN [left_poll |-> lp, ret |-> Pending, polls |-> <<Polled("left", l)>>]
         ELSE IF l = RNone
         THEN [left_poll |-> l, ret |-> RNone, polls |-> <<Polled("left", l)>>]
         ELSE ZipBiased_right(r, l, <<Polled("left", l)>>)
    ELSE IF lp = RNone
    THEN [left_poll |-> lp, ret |-> RNone, polls |-> <<>>]
    ELSE ZipBiased_right(r, lp, <<>>)

(* TryZipBiased::poll_next *)

\* The arm Poll::Ready(some_left @ Some(_)): poll right; a failure breaks out with
\* left_poll untouched, anything else takes the left item out of left_poll.
TryZipBiased_right(r, lp, polls) ==
    IF r = Pending
    THEN [left_poll |-> lp, ret |-> Pending, polls |-> Append(polls, Polled("right", r))]
    ELSE IF IsErr(r)
    THEN [left_poll |-> lp, ret |-> r, polls |-> Append(polls, Polled("right", r))]
    ELSE [left_poll |-> RNone,
          ret |-> IF r = RNone THEN RNone ELSE RSome(Ok(<<lp.val, r.val.ok>>)),
          polls |-> Append(polls, Polled("right", r))]

TryZipBiased_poll_next(l, r, lp) ==
    IF lp = Pending
    THEN IF l = Pending
         THEN [left_poll |-> lp, ret |-> Pending, polls |-> <<Polled("left", l)>>]
         ELSE IF IsErr(l)
         THEN [left_poll |-> lp, ret |-> l, polls |-> <<Polled("left", l)>>]
         ELSE IF l = RNone
         THEN [left_poll |-> RNone, ret |-> RNone, polls |-> <<Polled("left", l)>>]
         ELSE TryZipBiased_right(r, RSome(l.val.ok), <<Polled("left", l)>>)
    ELSE IF lp = RNone
    THEN [left_poll |-> lp, ret |-> RNone, polls |-> <<>>]
    ELSE TryZipBiased_right(r, lp, <<>>)

-----------------------------------------------------------------------------
(* The combinator as constructed by new() *)

Init ==
    /\ kind \in Kinds
    /\ last_poll = Pending
    /\ terminated = FALSE
    /\ left_poll = Pending
    /\ prev_poll = Pending
    /\ pc = "idle"
    /\ cur = <<>>
    /\ up = [inner |-> 0, left |-> 0, right |-> 0]
    /\ trace = <<>>

ExpandPoll ==
    /\ kind = "Expand"
    /\ Len(trace) < MaxQueries
    /\ \E this_poll \in StreamOutcomes(up.inner) :
         LET r == Expand_poll_next(this_poll, last_poll)
             polls == <<Polled("inner", this_poll)>>
         IN /\ last_poll' = r.last_poll
            /\ up' = Advance(up, polls)
            /\ trace' = Append(trace, [polls |-> polls, ret |-> r.ret])
    /\ UNCHANGED <<kind, terminated, left_poll, prev_poll, pc, cur>>

TryExpandPoll ==
    /\ kind = "TryExpand"
    /\ Len(trace) < MaxQueries
    /\ \E this_poll \in TryStreamOutcomes(up.inner) :
         LET r == TryExpand_poll_next(this_poll, last_poll, terminated)
             polls == IF r.polled THEN <<Polled("inner", this_poll)>> ELSE <<>>
         IN /\ last_poll' = r.last_poll
            /\ terminated' = r.terminated
            /\ up' = Advance(up, polls)
            /\ trace' = Append(trace, [polls |-> polls, ret |-> r.ret])
    /\ UNCHANGED <<kind, left_poll, prev_poll, pc, cur>>

\* poll_next is entered: let mut prev_poll = Poll::Pending
LatestReadyBegin ==
    /\ kind = "LatestReady"
    /\ pc = "idle"
    /\ Len(trace) < MaxQueries
    /\ pc' = "loop"
    /\ prev_poll' = Pending
    /\ cur' = <<>>
    /\ UNCHANGED <<kind, last_poll, terminated, left_poll, up, trace>>

\* one iteration of the loop: poll the upstream, break or remember the item
LatestReadyStep ==
    /\ kind = "LatestReady"
    /\ pc = "loop"
    /\ \E o \in StreamOutcomes(up.inner) :
         /\ IsSome(o) => Len(cur) < MaxBurst
         /\ LET r == LatestReady_loop(o, prev_poll) IN
              /\ prev_poll' = r.prev_poll
              /\ up' = Advance(up, <<Polled("inner", o)>>)
              /\ IF r.done
                 THEN /\ pc' = "idle"
                      /\ cur' = <<>>
                      /\ trace' = Append(trace,
                             [polls |-> Append(cur, Polled("inner", o)), ret |-> r.ret])
                 ELSE /\ pc' = "loop"
                      /\ cur' = Append(cur, Polled("inner", o))
                      /\ trace' = trace
    /\ UNCHANGED <<kind, last_poll, terminated, left_poll>>

TryLatestReadyBegin ==
    /\ kind = "TryLatestReady"
    /\ pc = "idle"
    /\ Len(trace) < MaxQueries
    /\ pc' = "loop"
    /\ prev_poll' = Pending
    /\ cur' = <<>>
    /\ UNCHANGED <<kind, last_poll, terminated, left_poll, up, trace>>

TryLatestReadyStep ==
    /\ kind = "TryLatestReady"
    /\ pc = "loop"
    /\ \E o \in TryStreamOutcomes(up.inner) :
         /\ IsOk(o) => Len(cur) < MaxBurst
         /\ LET r == TryLatestReady_loop(o, prev_poll) IN
              /\ prev_poll' = r.prev_poll
              /\ up' = Advance(up, <<Polled("inner", o)>>)
              /\ IF r.done
                 THEN /\ pc' = "idle"
                      /\ cur' = <<>>
                      /\ trace' = Append(trace,
                             [polls |-> Append(cur, Polled("inner", o)), ret |-> r.ret])
                 ELSE /\ pc' = "loop"
                      /\ cur' = Append(cur, Polled("inner", o))
                      /\ trace' = trace
    /\ UNCHANGED <<kind, last_poll, terminated, left_poll>>

ZipBiasedPoll ==
    /\ kind = "ZipBiased"
    /\ Len(trace) < MaxQueries
    /\ \E l \in StreamOutcomes(up.left), r \in StreamOutcomes(up.right) :
         LET n == ZipBiased_poll_next(l, r, left_poll) IN
           /\ left_poll' = n.left_poll
           /\ up' = Advance(up, n.polls)
           /\ trace' = Append(trace, [polls |-> n.polls, ret |-> n.ret])
    /\ UNCHANGED <<kind, last_poll, terminated, prev_poll, pc, cur>>

TryZipBiasedPoll ==
    /\ kind = "TryZipBiased"
    /\ Len(trace) < MaxQueries
    /\ \E l \in TryStreamOutcomes(up.left), r \in TryStreamOutcomes(up.right) :
         LET n == TryZipBiased_poll_next(l, r, left_poll) IN
           /\ left_poll' = n.left_poll
           /\ up' = Advance(up, n.polls)
           /\ trace' = Append(trace, [polls |-> n.polls, ret |-> n.ret])
    /\ UNCHANGED <<kind, last_poll, terminated, prev_poll, pc, cur>>

Next ==
    \/ ExpandPoll
    \/ TryExpandPoll
    \/ LatestReadyBegin
    \/ LatestReadyStep
    \/ TryLatestReadyBegin
    \/ TryLatestReadyStep
    \/ ZipBiasedPoll
    \/ TryZipBiasedPoll

Spec == Init /\ [][Next]_vars

\* A poll_next that has been entered runs on: the loop of (Try)LatestReady polls
\* its upstream again as long as it has not returned.
FairSpec == Spec /\ WF_vars(LatestReadyStep) /\ WF_vars(TryLatestReadyStep)

-----------------------------------------------------------------------------
(* Reading the trace *)

RECURSIVE AllPolls(_)
\* every upstream poll of the finished downstream polls of t, in order
AllPolls(t) == IF t = <<>> THEN <<>> ELSE AllPolls(SubSeq(t, 1, Len(t) - 1)) \o t[Len(t)].polls

\* downstream poll i polled upstream src and it reported o
Saw(i, src, o) == \E k \in DOMAIN trace[i].polls : trace[i].polls[k] = Polled(src, o)

\* downstream poll i polled upstream src
Asked(i, src) == \E k \in DOMAIN trace[i].polls : trace[i].polls[k].src = src

\* an upstream outcome that ends a TryStream for the fallible combinators
IsTerminal(o) == o = RNone \/ IsErr(o)

\* downstream poll i got a terminal outcome from its upstream
SawTerminal(i) == \E k \in DOMAIN trace[i].polls : IsTerminal(trace[i].polls[k].out)

Max(S) == CHOOSE x \in S : \A y \in S : y <= x

-----------------------------------------------------------------------------
(* TryExpand *)

C1_Inv ==
    kind = "TryExpand" =>
        /\ terminated <=> \E i \in DOMAIN trace : SawTerminal(i)
        /\ \A i \in DOMAIN trace :
              /\ SawTerminal(i) => trace[i].ret = trace[i].polls[1].out
              /\ (\E j \in 1 .. (i - 1) : SawTerminal(j))
                    => trace[i].polls = <<>> /\ trace[i].ret = RNone
              /\ (\A j \in 1 .. i : ~Saw(j, "inner", Pending)) /\ trace[i].polls # <<>>
                    => trace[i].ret = trace[i].polls[1].out

\* C1: once the upstream of TryExpand reports Exhausted or a failed item, that poll
\* returns this terminal event, every later poll returns Exhausted without polling
\* the upstream, whatever it would report, and terminated is never unset; with an
\* upstream that is never Pending the output is the upstream's items up to and
\* including the first failure, then Exhausted.
C1_TryExpandTerminates == [](C1_Inv) /\ [][terminated => terminated']_vars

\* an Ok item, then a failure, then a poll answered Exhausted with no upstream poll
C1_Witness ==
    /\ kind = "TryExpand"
    /\ Len(trace) >= 3
    /\ IsOk(trace[1].ret)
    /\ IsErr(trace[2].ret)
    /\ trace[3] = [polls |-> <<>>, ret |-> RNone]
    /\ terminated

-----------------------------------------------------------------------------
(* Expand *)

\* the upstream outcome of downstream poll i of Expand
ExpandSaw(i) == trace[i].polls[1].out

\* C9: once the upstream of Expand has produced an item, no poll of Expand returns
\* NotReady, whatever the upstream reports.
C9_ExpandNeverPendingAfterItem ==
    kind = "Expand" =>
        \A i \in DOMAIN trace : \A j \in DOMAIN trace :
            i <= j /\ IsSome(ExpandSaw(i)) => trace[j].ret # Pending

\* NotReady before any item, an item, and then NotReady from the upstream answered
\* with the item
C9_Witness ==
    /\ kind = "Expand"
    /\ Len(trace) >= 3
    /\ trace[1].ret = Pending
    /\ trace[2].ret = RSome(1)
    /\ ExpandSaw(3) = Pending
    /\ trace[3].ret = RSome(1)

\* the most recent upstream outcome before downstream poll i that satisfies P
LastBefore(i, P(_)) ==
    LET S == {j \in 1 .. (i - 1) : P(ExpandSaw(j))}
    IN IF S = {} THEN Pending ELSE ExpandSaw(Max(S))

NotPending(o) == o # Pending

\* C10: every poll of Expand polls the upstream exactly once; Produced(x) and
\* Exhausted are returned as they are; NotReady is returned as the most recent
\* upstream outcome that was not NotReady (the last item, or Exhausted when the
\* upstream reported Exhausted after it), or as NotReady if there is none; with an
\* upstream that never reports NotReady the output equals the upstream sequence.
C10_ExpandPointwise ==
    kind = "Expand" =>
        \A i \in DOMAIN trace :
            /\ Len(trace[i].polls) = 1
            /\ trace[i].polls[1].src = "inner"
            /\ ExpandSaw(i) # Pending => trace[i].ret = ExpandSaw(i)
            /\ ExpandSaw(i) = Pending => trace[i].ret = LastBefore(i, NotPending)

\* C10 as stated: NotReady is returned as the most recently produced item, or as
\* NotReady if no item was produced yet.
C10_Original ==
    kind = "Expand" =>
        \A i \in DOMAIN trace :
            /\ Len(trace[i].polls) = 1
            /\ IsSome(ExpandSaw(i)) => trace[i].ret = ExpandSaw(i)
            /\ ExpandSaw(i) = Pending => trace[i].ret = LastBefore(i, IsSome)

\* an item, NotReady twice answered with the item, then the next item
C10_Witness ==
    /\ kind = "Expand"
    /\ Len(trace) = 4
    /\ ExpandSaw(1) = RSome(1) /\ trace[1].ret = RSome(1)
    /\ ExpandSaw(2) = Pending /\ trace[2].ret = RSome(1)
    /\ ExpandSaw(3) = Pending /\ trace[3].ret = RSome(1)
    /\ ExpandSaw(4) = RSome(2) /\ trace[4].ret = RSome(2)

-----------------------------------------------------------------------------
(* ZipBiased *)

\* C6 as stated: ZipBiased returns Exhausted only if left has reported Exhausted,
\* and a poll in which right reports Exhausted (a left item being held) returns
\* NotReady.
C6_Original ==
    kind = "ZipBiased" =>
        \A i \in DOMAIN trace :
            /\ trace[i].ret = RNone => \E j \in 1 .. i : Saw(j, "left", RNone)
            /\ Saw(i, "right", RNone) => trace[i].ret = Pending

\* C6: ZipBiased returns Exhausted only if left has reported Exhausted or right
\* reports Exhausted in that poll; a poll in which right reports Exhausted while a
\* left item is held returns Exhausted (not NotReady) and empties the held-left slot.
C6_ZipBiasedExhaustion ==
    kind = "ZipBiased" =>
        /\ \A i \in DOMAIN trace :
              /\ trace[i].ret = RNone
                    => (\E j \in 1 .. i : Saw(j, "left", RNone)) \/ Saw(i, "right", RNone)
              /\ Saw(i, "right", RNone) => trace[i].ret = RNone
        /\ trace # <<>> /\ Saw(Len(trace), "right", RNone) => left_poll = Pending

\* a left item is held over a NotReady of right, then right reports Exhausted
C6_Witness ==
    /\ kind = "ZipBiased"
    /\ Len(trace) >= 2
    /\ trace[1] = [polls |-> <<Polled("left", RSome(1)), Polled("right", Pending)>>, ret |-> Pending]
    /\ trace[2] = [polls |-> <<Polled("right", RNone)>>, ret |-> RNone]
    /\ ~(\E j \in 1 .. 2 : Saw(j, "left", RNone))

\* C7: when the right side of ZipBiased is empty (it reports Exhausted before any
\* item) and left has produced an item, that poll returns Exhausted and no pair has
\* been emitted up to it: the collected output is empty.
C7_ZipBiasedRightEmpty ==
    kind = "ZipBiased" =>
        \A i \in DOMAIN trace :
            Saw(i, "right", RNone) /\ (\A j \in 1 .. i : \A k \in DOMAIN trace[j].polls :
                                           trace[j].polls[k].src = "right"
                                               => ~IsSome(trace[j].polls[k].out))
                => /\ trace[i].ret = RNone
                   /\ \A j \in 1 .. i : ~IsSome(trace[j].ret)
                   /\ \E j \in 1 .. i : \E k \in DOMAIN trace[j].polls :
                          trace[j].polls[k].src = "left" /\ IsSome(trace[j].polls[k].out)

\* left produces its first item and the empty right reports Exhausted in the same poll
C7_Witness ==
    /\ kind = "ZipBiased"
    /\ Len(trace) >= 1
    /\ trace[1] = [polls |-> <<Polled("left", RSome(1)), Polled("right", RNone)>>, ret |-> RNone]

-----------------------------------------------------------------------------
(* TryZipBiased, TryLatestReady: what follows a failure *)

\* the Produced outcomes of the finished downstream polls, in order
Produced == SelectSeq([i \in DOMAIN trace |-> trace[i].ret], IsSome)

\* no upstream has reported a failure or Exhausted
AllLive == \A k \in DOMAIN AllPolls(trace) :
               AllPolls(trace)[k].out = Pending \/ IsOk(AllPolls(trace)[k].out)

\* C2: with left and right producing successful items only (NotReady interleaved),
\* the Produced outcomes of TryZipBiased are Ok((l1,r1)), Ok((l2,r2)), ... in order;
\* after a pair is emitted the next poll polls left again, and Exhausted is
\* returned only after an upstream has reported Exhausted.
C2_TryZipBiasedPairsInOrder ==
    kind = "TryZipBiased" /\ AllLive =>
        /\ \A k \in DOMAIN Produced : Produced[k] = RSome(Ok(<<k, k>>))
        /\ \A i \in DOMAIN trace :
              /\ trace[i].ret # RNone
              /\ i > 1 /\ IsSome(trace[i - 1].ret) => Asked(i, "left")

\* C3: after TryLatestReady has returned a failure, every later poll returns
\* Exhausted, whatever the upstream reports.
C3_TryLatestReadyExhaustedAfterFailure ==
    kind = "TryLatestReady" =>
        \A i \in DOMAIN trace : \A j \in DOMAIN trace :
            i < j /\ IsErr(trace[i].ret) => trace[j].ret = RNone

\* C4: after TryZipBiased has returned a failure (from left or from right), every
\* later poll returns Exhausted, whatever the upstreams report.
C4_TryZipBiasedExhaustedAfterFailure ==
    kind = "TryZipBiased" =>
        \A i \in DOMAIN trace : \A j \in DOMAIN trace :
            i < j /\ IsErr(trace[i].ret) => trace[j].ret = RNone

\* C5: when TryZipBiased reports a failure the held-left slot is empty after that
\* poll, and a left item held at a failure of right is never paired with a later
\* right item.
C5_TryZipBiasedFailureDropsLeft ==
    kind = "TryZipBiased" =>
        /\ trace # <<>> /\ IsErr(trace[Len(trace)].ret) => ~IsSome(left_poll)
        /\ \A i \in DOMAIN trace : \A j \in DOMAIN trace :
              i < j /\ IsErr(trace[i].ret) /\ Saw(i, "right", trace[i].ret) /\ IsOk(trace[j].ret)
                  => Asked(j, "left")

-----------------------------------------------------------------------------
(* Idempotent exhaustion *)

\* every upstream keeps reporting Exhausted once it has reported Exhausted
Fused ==
    LET ps == AllPolls(trace) IN
    \A a \in DOMAIN ps : \A b \in DOMAIN ps :
        a < b /\ ps[a].src = ps[b].src /\ ps[a].out = RNone => ps[b].out = RNone

\* C8: with upstreams that keep reporting Exhausted once they have, each combinator
\* that has returned Exhausted returns Exhausted on every later poll.
C8_IdempotentExhaustion ==
    Fused =>
        \A i \in DOMAIN trace : \A j \in DOMAIN trace :
            i < j /\ trace[i].ret = RNone => trace[j].ret = RNone

\* C8 holds of the five other combinators
C8_ExceptZipBiased == kind # "ZipBiased" => C8_IdempotentExhaustion

-----------------------------------------------------------------------------
(* ZipBiased, TryZipBiased: the bias *)

\* the downstream poll that the step has just finished
Finished == Len(trace') = Len(trace) + 1

\* an upstream outcome that is an item the zip holds (a successful one for TryZipBiased)
IsLeftItem(o) == IF kind = "TryZipBiased" THEN IsOk(o) ELSE IsSome(o)

C11_Step ==
    kind \in {"ZipBiased", "TryZipBiased"} /\ Finished =>
        LET q == trace'[Len(trace')]
            rights == {k \in DOMAIN q.polls : q.polls[k].src = "right"}
            lefts == {k \in DOMAIN q.polls : q.polls[k].src = "left"}
        IN /\ Cardinality(rights) <= 1
           /\ rights # {} =>
                 \/ IsSome(left_poll) /\ lefts = {}
                 \/ /\ left_poll = Pending
                    /\ \E k \in lefts : IsLeftItem(q.polls[k].out) /\ \A m \in rights : k < m
           /\ (\E k \in lefts : q.polls[k].out \in {Pending, RNone}) => rights = {}

\* C11: ZipBiased and TryZipBiased poll right only while a left item is held (held
\* from an earlier poll, or obtained from left earlier in the same poll), at most
\* once per downstream poll, and not at all in a downstream poll in which left
\* reports NotReady or Exhausted.
C11_RightOnlyWithLeftHeld == [][C11_Step]_vars

\* TryZipBiased: left not ready (right not polled), then a left item and right not
\* ready, then right polled alone against the held item
C11_Witness ==
    /\ kind = "TryZipBiased"
    /\ Len(trace) >= 3
    /\ trace[1].polls = <<Polled("left", Pending)>>
    /\ trace[2].polls = <<Polled("left", RSome(Ok(1))), Polled("right", Pending)>>
    /\ trace[3].polls = <<Polled("right", RSome(Ok(1)))>>

\* the left item held after downstream poll i of ZipBiased: the last one left yielded
HeldAfter(i) ==
    LET S == {j \in 1 .. i : \E k \in DOMAIN trace[j].polls :
                  trace[j].polls[k].src = "left" /\ IsSome(trace[j].polls[k].out)}
    IN trace[Max(S)].polls[1].out

C12_Retains(i) ==
    /\ trace[i].ret = Pending
    /\ i = Len(trace) => left_poll = HeldAfter(i)
    /\ i < Len(trace) =>
          /\ Len(trace[i + 1].polls) = 1
          /\ trace[i + 1].polls[1].src = "right"
          /\ IsSome(trace[i + 1].polls[1].out)
                => trace[i + 1].ret = RSome(<<HeldAfter(i).val, trace[i + 1].polls[1].out.val>>)

\* C12: when right reports NotReady while a left item x is held, the poll returns
\* NotReady, x stays held, and left is not polled again until right has produced an
\* item y and the pair (x, y) has been emitted.
C12_ZipBiasedRetainsLeftUntilPaired ==
    kind = "ZipBiased" =>
        \A i \in DOMAIN trace :
            Saw(i, "right", Pending) =>
                /\ C12_Retains(i)
                /\ \A j \in (i + 1) .. Len(trace) :
                      Asked(j, "left") => \E m \in (i + 1) .. (j - 1) : IsSome(trace[m].ret)

\* What the code keeps of it: left is not polled again until right has reported
\* something other than NotReady, an item y, the pair (x, y) being emitted, or
\* Exhausted, after which ZipBiased returns Exhausted and then polls left again.
ZipBiasedRetainsLeftWhileRightPending ==
    kind = "ZipBiased" =>
        \A i \in DOMAIN trace :
            Saw(i, "right", Pending) =>
                /\ C12_Retains(i)
                /\ \A j \in (i + 1) .. Len(trace) :
                      Asked(j, "left") =>
                          \E m \in (i + 1) .. (j - 1) :
                              \/ IsSome(trace[m].ret)
                              \/ Saw(m, "right", RNone) /\ trace[m].ret = RNone

\* left item 1 is held over two NotReady of right and then paired with right's item
C12_Witness ==
    /\ kind = "ZipBiased"
    /\ Len(trace) = 4
    /\ trace[1].polls = <<Polled("left", RSome(1)), Polled("right", Pending)>>
    /\ trace[2] = [polls |-> <<Polled("right", Pending)>>, ret |-> Pending]
    /\ trace[3] = [polls |-> <<Polled("right", RSome(1))>>, ret |-> RSome(<<1, 1>>)]
    /\ Asked(4, "left")

\* neither side of the zip has reported Exhausted
BothLive == \A k \in DOMAIN AllPolls(trace) : AllPolls(trace)[k].out # RNone

\* C13: while neither side has reported Exhausted, the k-th pair ZipBiased emits is
\* (k-th item of left, k-th item of right), for any interleaving of NotReady, and
\* every item an upstream has yielded is in a pair or is the held left item.
C13_ZipBiasedPairsByPosition ==
    kind = "ZipBiased" /\ BothLive =>
        /\ \A k \in DOMAIN Produced : Produced[k] = RSome(<<k, k>>)
        /\ up.right = Len(Produced)
        /\ up.left = Len(Produced) + (IF IsSome(left_poll) THEN 1 ELSE 0)
        /\ IsSome(left_poll) => left_poll = RSome(up.left)

\* two pairs with a NotReady of right between the left item and its partner
C13_Witness ==
    /\ kind = "ZipBiased"
    /\ BothLive
    /\ Len(trace) >= 3
    /\ trace[1].ret = RSome(<<1, 1>>)
    /\ trace[2].polls = <<Polled("left", RSome(2)), Polled("right", Pending)>>
    /\ trace[3].ret = RSome(<<2, 2>>)

\* C14: when left reports Exhausted (no left item being held), ZipBiased returns
\* Exhausted in that poll without polling right, and every later poll returns
\* Exhausted without polling left or right, whatever right could produce.
C14_ZipBiasedLeftExhausted ==
    kind = "ZipBiased" =>
        \A i \in DOMAIN trace :
            Saw(i, "left", RNone) =>
                /\ trace[i] = [polls |-> <<Polled("left", RNone)>>, ret |-> RNone]
                /\ \A j \in (i + 1) .. Len(trace) : trace[j] = [polls |-> <<>>, ret |-> RNone]

\* a pair, then left exhausted, then a poll answered without any upstream poll
C14_Witness ==
    /\ kind = "ZipBiased"
    /\ Len(trace) >= 3
    /\ IsSome(trace[1].ret)
    /\ Saw(2, "left", RNone)
    /\ trace[3] = [polls |-> <<>>, ret |-> RNone]

-----------------------------------------------------------------------------
(* LatestReady, TryLatestReady *)

\* the outcome of the last upstream poll of downstream poll i
LastSaw(i) == trace[i].polls[Len(trace[i].polls)].out

\* the items downstream poll i got before its last upstream poll
Burst(i) == [k \in 1 .. (Len(trace[i].polls) - 1) |-> trace[i].polls[k].out]

\* C15: one poll of LatestReady keeps polling the upstream while it produces items;
\* when the upstream reports NotReady the poll returns the last item produced
\* during that poll, or NotReady if that poll got none; earlier items of the burst
\* are not emitted and nothing carries over to the next poll.
C15_LatestReadyCoalesces ==
    kind = "LatestReady" =>
        \A i \in DOMAIN trace :
            /\ trace[i].polls # <<>>
            /\ \A k \in DOMAIN Burst(i) : IsSome(Burst(i)[k])
            /\ LastSaw(i) \in {Pending, RNone}
            /\ LastSaw(i) = Pending =>
                  trace[i].ret = IF Burst(i) = <<>> THEN Pending
                                 ELSE Burst(i)[Len(Burst(i))]

\* two bursts of two items, each closed by NotReady: the output is items 2 and 4
C15_Witness ==
    /\ kind = "LatestReady"
    /\ Len(trace) >= 3
    /\ Len(trace[1].polls) = 3 /\ trace[1].ret = RSome(2)
    /\ trace[2].polls = <<Polled("inner", Pending)>> /\ trace[2].ret = Pending
    /\ Len(trace[3].polls) = 3 /\ trace[3].ret = RSome(4)

\* C16: if the upstream of LatestReady reports Exhausted during a poll, the poll
\* returns Exhausted and the items it got before are not emitted; an upstream that
\* never reports NotReady yields no item at all.
C16_LatestReadyExhaustionFirst ==
    kind = "LatestReady" =>
        /\ \A i \in DOMAIN trace : LastSaw(i) = RNone => trace[i].ret = RNone
        /\ (\A i \in DOMAIN trace : LastSaw(i) # Pending) => Produced = <<>>

\* two ready items and then Exhausted in one poll: Exhausted, no item
C16_Witness ==
    /\ kind = "LatestReady"
    /\ Len(trace) >= 1
    /\ trace[1] = [polls |-> <<Polled("inner", RSome(1)), Polled("inner", RSome(2)),
                               Polled("inner", RNone)>>,
                   ret |-> RNone]

\* C17: if the upstream of TryLatestReady produces a failed item during a poll, the
\* poll returns that failure with no further upstream poll, and the successful
\* items it got before are not emitted.
C17_TryLatestReadyFailureFirst ==
    kind = "TryLatestReady" =>
        \A i \in DOMAIN trace :
            /\ \A k \in DOMAIN Burst(i) : IsOk(Burst(i)[k])
            /\ IsErr(LastSaw(i)) => trace[i].ret = LastSaw(i)
            /\ (\A j \in 1 .. i : LastSaw(j) # Pending) /\ IsSome(trace[i].ret)
                  => IsErr(trace[i].ret)

\* Ok(1), Ok(2), Err(e) all ready in one poll: the poll returns Err(e)
C17_Witness ==
    /\ kind = "TryLatestReady"
    /\ Len(trace) >= 1
    /\ trace[1] = [polls |-> <<Polled("inner", RSome(Ok(1))), Polled("inner", RSome(Ok(2))),
                               Polled("inner", RSome(Err("e")))>>,
                   ret |-> RSome(Err("e"))]

-----------------------------------------------------------------------------
(* Wake propagation *)

\* C18: a poll of any of the six combinators returns NotReady only if it polled an
\* upstream and the last upstream poll it made returned NotReady.
C18_PendingOnlyAfterUpstreamPending ==
    \A i \in DOMAIN trace :
        trace[i].ret = Pending => trace[i].polls # <<>> /\ LastSaw(i) = Pending

\* TryZipBiased returns NotReady twice: for a left that is not ready, then for a
\* right that is not ready while a left item is held
C18_Witness ==
    /\ kind = "TryZipBiased"
    /\ Len(trace) >= 2
    /\ trace[1] = [polls |-> <<Polled("left", Pending)>>, ret |-> Pending]
    /\ trace[2] = [polls |-> <<Polled("left", RSome(Ok(1))), Polled("right", Pending)>>,
                   ret |-> Pending]

-----------------------------------------------------------------------------
(* Expand: the slot *)

\* C19: the slot of Expand always holds the most recent upstream outcome that was
\* not NotReady, Exhausted included: when that outcome is Exhausted, a poll in which
\* the upstream reports NotReady returns Exhausted, not NotReady and not the last
\* item; and the slot never returns to its initial 'no outcome yet'.
C19_ExpandRemembersExhaustion ==
    /\ [](kind = "Expand" =>
            /\ last_poll = LastBefore(Len(trace) + 1, NotPending)
            /\ \A i \in DOMAIN trace :
                  ExpandSaw(i) = Pending /\ LastBefore(i, NotPending) = RNone
                      => trace[i].ret = RNone)
    /\ [][kind = "Expand" /\ last_poll # Pending => last_poll' # Pending]_vars

\* an item, then Exhausted, then NotReady from the upstream answered Exhausted
C19_Witness ==
    /\ kind = "Expand"
    /\ Len(trace) >= 3
    /\ ExpandSaw(1) = RSome(1)
    /\ ExpandSaw(2) = RNone
    /\ ExpandSaw(3) = Pending
    /\ trace[3].ret = RNone
    /\ last_poll = RNone

-----------------------------------------------------------------------------
(* LatestReady, TryLatestReady: when one poll returns *)

LatestReadyKinds == {"LatestReady", "TryLatestReady"}

\* an item that keeps the loop going: Some(_) for LatestReady, Some(Ok(_)) for TryLatestReady
KeepsLooping(o) == IF kind = "TryLatestReady" THEN IsOk(o) ELSE IsSome(o)

\* one iteration of the loop: it returns exactly when the upstream outcome is not an item
C20_Step ==
    kind \in LatestReadyKinds /\ pc = "loop" /\ (cur' # cur \/ Finished) =>
        IF Finished
        THEN /\ pc' = "idle"
             /\ ~KeepsLooping(trace'[Len(trace')].polls[Len(cur) + 1].out)
             /\ Len(trace'[Len(trace')].polls) = Len(cur) + 1
        ELSE /\ pc' = "loop"
             /\ Len(cur') = Len(cur) + 1
             /\ KeepsLooping(cur'[Len(cur')].out)

\* C20: a poll of LatestReady / TryLatestReady returns at the first upstream outcome
\* that is not an item (NotReady, Exhausted, or a failure for TryLatestReady) and
\* not before: an iteration that gets an item never returns, so with an upstream
\* that produces an item on every poll the downstream poll never returns; and when
\* the upstream stops producing after finitely many items the poll returns.
C20_LatestReadyReturns ==
    /\ [][C20_Step]_vars
    /\ [](kind \in LatestReadyKinds /\ pc = "loop" => \A k \in DOMAIN cur : KeepsLooping(cur[k].out))
    /\ (kind \in LatestReadyKinds /\ pc = "loop") ~> (pc = "idle")

\* TryLatestReady is inside one poll, has got two items and has not returned
C20_Witness ==
    /\ kind = "TryLatestReady"
    /\ pc = "loop"
    /\ Len(trace) = 1
    /\ Len(cur) = 2
    /\ IsErr(trace[1].ret)

=============================================================================
